---- MODULE Spec2Model ----
(***************************************************************************)
(* scripts/batch_export_skills.py: build the tool, list the active skills, *)
(* parse the listing, keep the rows whose origin is "built" and export     *)
(* each of them, one child process at a time.                              *)
(*                                                                         *)
(* Text (a line, a token, a whole listing) is a sequence of one-character  *)
(* strings, so that splitlines, strip, startswith and split are computed   *)
(* character by character as Python computes them.                         *)
(***************************************************************************)
EXTENDS Integers, Sequences, FiniteSets, TLC

VARIABLES pc, commands, out, result, records, skills_to_export, next, exitStatus

vars == <<pc, commands, out, result, records, skills_to_export, next, exitStatus>>

(***************************************************************************)
(* Bounds of the model.                                                    *)
(***************************************************************************)
\* Longest listing, in lines, built from SampleLines.
MaxLines == 2
\* Largest exit status a child process returns (0 is success).
MaxStatus == 2

(***************************************************************************)
(* Literals of the program.                                                *)
(***************************************************************************)
HEADER_PREFIX == <<"C", "r", "a", "t", "o", "s", " ", "S", "k", "i", "l", "l", "s">>
SEPARATOR_PREFIX == <<"-", "-", "-", "-", "-">>
BUILT == <<"b", "u", "i", "l", "t">>
\* len(parts) < 4
MinParts == 4
\* parts[1], parts[3] (Python indices, from 0)
NameIndex == 1
OriginIndex == 3

BuildCmd == <<"uv", "run", "cargo", "build">>
ListCmd == <<"uv", "run", "cargo", "run", "--bin", "cratos", "--", "skill", "list", "--active">>
ExportPrefix == <<"uv", "run", "cargo", "run", "--bin", "cratos", "--", "skill", "export", "--markdown">>
\* Variant: the export without its --markdown flag.
ExportCmdPlain(skill) ==
    <<"uv", "run", "cargo", "run", "--bin", "cratos", "--", "skill", "export", skill>>

ExportCmd(skill) == Append(ExportPrefix, skill)

\* An uncaught exception ends the interpreter with status 1; main() is called
\* with no try/except around it.
UncaughtExceptionStatus == 1

(***************************************************************************)
(* str methods.                                                            *)
(***************************************************************************)
\* The whitespace str.strip() and str.split() act on, within one line.
IsSpace(c) == c \in {" ", "\t"}

RECURSIVE SplitLinesFrom(_, _, _)
SplitLinesFrom(s, i, cur) ==
    IF i > Len(s)
    THEN IF cur = <<>> THEN <<>> ELSE <<cur>>
    ELSE IF s[i] = "\n"
         THEN <<cur>> \o SplitLinesFrom(s, i + 1, <<>>)
         ELSE SplitLinesFrom(s, i + 1, Append(cur, s[i]))

\* str.splitlines(): a final line break opens no further line.
splitlines(s) == SplitLinesFrom(s, 1, <<>>)

RECURSIVE lstrip(_)
lstrip(s) == IF s # <<>> /\ IsSpace(Head(s)) THEN lstrip(Tail(s)) ELSE s

RECURSIVE rstrip(_)
rstrip(s) ==
    IF s # <<>> /\ IsSpace(s[Len(s)]) THEN rstrip(SubSeq(s, 1, Len(s) - 1)) ELSE s

strip(s) == rstrip(lstrip(s))

startswith(s, prefix) ==
    Len(s) >= Len(prefix) /\ SubSeq(s, 1, Len(prefix)) = prefix

RECURSIVE SplitFrom(_, _, _)
SplitFrom(s, i, cur) ==
    IF i > Len(s)
    THEN IF cur = <<>> THEN <<>> ELSE <<cur>>
    ELSE IF IsSpace(s[i])
         THEN (IF cur = <<>> THEN <<>> ELSE <<cur>>) \o SplitFrom(s, i + 1, <<>>)
         ELSE SplitFrom(s, i + 1, Append(cur, s[i]))

\* str.split() with no separator: runs of whitespace separate, no empty token.
split(s) == SplitFrom(s, 1, <<>>)

(***************************************************************************)
(* The parsing loop of main().                                             *)
(***************************************************************************)
\* if not line: continue
IsBlank(line) == line = <<>>

\* if line.startswith("Cratos Skills"): continue
IsHeader(line) == startswith(line, HEADER_PREFIX)

\* Variant: only a line made of dashes alone is a separator.
IsSeparatorDashOnly(line) ==
    line # <<>> /\ \A i \in 1 .. Len(line) : line[i] = "-"

\* if line.startswith("-----"): continue
IsSeparator(line) == startswith(line, SEPARATOR_PREFIX)

\* if len(parts) < 4: continue
TooFewParts(parts) == Len(parts) < MinParts

\* Variant: the index taken from 1, which names the icon.
RecordNameIcon(parts) == parts[NameIndex]

\* name = parts[1]
RecordName(parts) == parts[NameIndex + 1]

\* origin = parts[3]
RecordOrigin(parts) == parts[OriginIndex + 1]

\* Variant: any origin beginning with "built".
IsBuiltPrefix(origin) == startswith(origin, BUILT)

\* if origin == "built"
IsBuilt(origin) == origin = BUILT

\* skills_to_export.append(name), under the test of the origin
Select(skills, name, origin) ==
    IF IsBuilt(origin) THEN Append(skills, name) ELSE skills

\* The loop body over lines[k..]; acc holds the rows that reached the name and
\* origin assignments (each with the number of its line) and the list built so far.
RECURSIVE ParseLines(_, _, _)
ParseLines(lines, k, acc) ==
    IF k > Len(lines) THEN acc
    ELSE LET line == strip(lines[k])
             parts == split(line)
         IN  IF IsBlank(line) \/ IsHeader(line) \/ IsSeparator(line)
             THEN ParseLines(lines, k + 1, acc)
             ELSE IF TooFewParts(parts)
             THEN ParseLines(lines, k + 1, acc)
             ELSE LET name == RecordName(parts)
                      origin == RecordOrigin(parts)
                  IN  ParseLines(lines, k + 1,
                          [rows |-> Append(acc.rows,
                                            [line |-> k, name |-> name, origin |-> origin]),
                           skills |-> Select(acc.skills, name, origin)])

\* skills_to_export = []
EmptyBatch == <<>>

ParseOutput(stdout) ==
    ParseLines(splitlines(stdout), 1, [rows |-> <<>>, skills |-> EmptyBatch])

(***************************************************************************)
(* subprocess.run                                                          *)
(***************************************************************************)
\* Variant: check=True left out.
StrictNeverRaises(status) == FALSE

\* Variant: only the exit status 1 counts as a failure.
StrictRaisesOnlyOne(status) == status = 1

\* check=True: a non-zero exit status raises CalledProcessError.
StrictRaises(status) == status # 0

\* Variant: the child's status handed on, as sys.exit(e.returncode) would.
ExitWithChildStatus(status) == status

\* The exit status of the script when CalledProcessError leaves main().
CalledProcessErrorExit(status) == UncaughtExceptionStatus

\* Variant: only a negative status (a signal) counts as a failure.
QueryFailedNegative(returncode) == returncode < 0

\* Variant: the status of the list command is not looked at.
QueryNeverFailed(returncode) == FALSE

\* if result.returncode != 0
QueryFailed(returncode) == returncode # 0

Spawn(argv) == [argv |-> argv, exited |-> FALSE, status |-> 0]

Exit(cmds, status) ==
    [cmds EXCEPT ![Len(cmds)] = [@ EXCEPT !.exited = TRUE, !.status = status]]

(***************************************************************************)
(* print                                                                   *)
(***************************************************************************)
Line(text, str, n) == [text |-> text, str |-> str, n |-> n]
Msg(text) == Line(text, <<>>, 0)

(***************************************************************************)
(* What the child processes may do.                                        *)
(***************************************************************************)
Statuses == 0 .. MaxStatus

Stderrs == {<<>>, <<"E">>}

LineBlank == <<" ">>
LineHeader == <<"C", "r", "a", "t", "o", "s", " ", "S", "k", "i", "l", "l", "s">>
LineDashes == <<"-", "-", "-", "-", "-">>
LineShortDashes == <<"-", "-", "-">>
LineDashIcon == <<"-", "-", "-", "-", "-", "x", " ", "a", " ", "c", " ", "b", "u", "i", "l", "t">>
LineBuiltA == <<"*", " ", "a", " ", "c", " ", "b", "u", "i", "l", "t">>
LinePaddedA == <<" ", " ", "*", " ", "a", " ", " ", "c", "\t", "b", "u", "i", "l", "t", " ", "x", " ">>
LineCustomB == <<"*", " ", "b", " ", "c", " ", "c", "u", "s", "t", "o", "m">>
LineThreeTokens == <<"*", " ", "d", " ", "c">>
LineUpperBuilt == <<"*", " ", "e", " ", "c", " ", "B", "u", "i", "l", "t">>
LineBuiltin == <<"*", " ", "f", " ", "c", " ", "b", "u", "i", "l", "t", "i", "n">>
LineHeaderRow == <<"C", "r", "a", "t", "o", "s", " ", "S", "k", "i", "l", "l", "s", " ", "c", " ", "b", "u", "i", "l", "t">>
LineBuiltG == <<"*", " ", "g", " ", "t", " ", "b", "u", "i", "l", "t">>

SampleLines ==
    {LineBlank, LineHeader, LineDashes, LineShortDashes, LineDashIcon, LineBuiltA,
     LinePaddedA, LineCustomB, LineThreeTokens, LineUpperBuilt, LineBuiltin,
     LineHeaderRow, LineBuiltG}

ScAlpha == <<"*", " ", "a", "l", "p", "h", "a", " ", "c", "o", "r", "e", " ", "b", "u", "i", "l", "t">>
ScBeta == <<"*", " ", "b", "e", "t", "a", " ", "c", "o", "r", "e", " ", "c", "u", "s", "t", "o", "m">>
ScGamma == <<"*", " ", "g", "a", "m", "m", "a", " ", "t", "o", "o", "l", " ", "b", "u", "i", "l", "t">>
ScDelta == <<"*", " ", "d", "e", "l", "t", "a", " ", "c", "o", "r", "e">>

\* Each line followed by a line break, as a tool prints them.
RECURSIVE Unlines(_)
Unlines(ls) == IF ls = <<>> THEN <<>> ELSE Head(ls) \o <<"\n">> \o Unlines(Tail(ls))

\* The lines joined by line breaks, the last one unterminated.
Joined(ls) == IF ls = <<>> THEN <<>> ELSE SubSeq(Unlines(ls), 1, Len(Unlines(ls)) - 1)

ScenarioText == Joined(<<LineHeader, LineDashes, ScAlpha, ScBeta, ScGamma>>)
BoundaryText == Unlines(<<ScAlpha, ScDelta, ScGamma>>)

Listings == UNION {[1 .. n -> SampleLines] : n \in 0 .. MaxLines}

\* Longer listings, each mixing rows the parser treats differently.
LongListings ==
    {<<LineBuiltA, LinePaddedA, LineBuiltG>>,
     <<LinePaddedA, LineThreeTokens, LineBuiltG>>,
     <<LineBuiltA, LineBuiltin, LinePaddedA>>,
     <<LineShortDashes, LineDashIcon, LineBuiltA>>,
     <<LineHeader, LineDashes, LineCustomB>>}

Stdouts ==
    {Unlines(ls) : ls \in Listings \cup LongListings} \cup {ScenarioText, BoundaryText}

(***************************************************************************)
(* main()                                                                  *)
(***************************************************************************)
NoResult == [returncode |-> 0, stdout |-> <<>>, stderr |-> <<>>]

Init ==
    /\ pc = "start"
    /\ commands = <<>>
    /\ out = <<>>
    /\ result = NoResult
    /\ records = <<>>
    /\ skills_to_export = <<>>
    /\ next = 0
    /\ exitStatus = 0

\* print("Building Cratos..."); subprocess.run([... "build"], check=True) starts
BuildStart ==
    /\ pc = "start"
    /\ out' = Append(out, Msg("Building Cratos..."))
    /\ commands' = Append(commands, Spawn(BuildCmd))
    /\ pc' = "build"
    /\ UNCHANGED <<result, records, skills_to_export, next, exitStatus>>

\* the build child exits; check=True
BuildExit ==
    /\ pc = "build"
    /\ \E status \in Statuses :
         /\ commands' = Exit(commands, status)
         /\ IF StrictRaises(status)
            THEN pc' = "aborted" /\ exitStatus' = CalledProcessErrorExit(status)
            ELSE pc' = "fetch" /\ UNCHANGED exitStatus
    /\ UNCHANGED <<out, result, records, skills_to_export, next>>

\* print("Fetching active skills..."); subprocess.run(cmd, capture_output=True) starts
ListStart ==
    /\ pc = "fetch"
    /\ out' = Append(out, Msg("Fetching active skills..."))
    /\ commands' = Append(commands, Spawn(ListCmd))
    /\ pc' = "list"
    /\ UNCHANGED <<result, records, skills_to_export, next, exitStatus>>

\* the list child exits; result holds what it wrote and its status
ListExit ==
    /\ pc = "list"
    /\ \E status \in Statuses, stdout \in Stdouts, stderr \in Stderrs :
         /\ commands' = Exit(commands, status)
         /\ result' = [returncode |-> status, stdout |-> stdout, stderr |-> stderr]
    /\ pc' = "check"
    /\ UNCHANGED <<out, records, skills_to_export, next, exitStatus>>

\* if result.returncode != 0: print the error and stderr; return
ListFailed ==
    /\ pc = "check"
    /\ QueryFailed(result.returncode)
    /\ out' = out \o <<Msg("Error listing skills:"), Line("", result.stderr, 0)>>
    /\ pc' = "returned"
    /\ exitStatus' = 0
    /\ UNCHANGED <<commands, result, records, skills_to_export, next>>

\* the loop over result.stdout.splitlines(); print(f"Found {len(...)} ...")
Parse ==
    /\ pc = "check"
    /\ ~QueryFailed(result.returncode)
    /\ LET parsed == ParseOutput(result.stdout)
       IN  /\ records' = parsed.rows
           /\ skills_to_export' = parsed.skills
           /\ out' = Append(out, Line("Found {n} builtin skills to export.", <<>>,
                                      Len(parsed.skills)))
    /\ next' = 0
    /\ pc' = "export"
    /\ UNCHANGED <<commands, result, exitStatus>>

\* for skill in skills_to_export: print(f"Exporting {skill}..."); the export starts
ExportStart ==
    /\ pc = "export"
    /\ next < Len(skills_to_export)
    /\ LET skill == skills_to_export[next + 1]
       IN  /\ out' = Append(out, Line("Exporting {skill}...", skill, 0))
           /\ commands' = Append(commands, Spawn(ExportCmd(skill)))
    /\ next' = next + 1
    /\ pc' = "exporting"
    /\ UNCHANGED <<result, records, skills_to_export, exitStatus>>

\* the export child exits; check=True
ExportExit ==
    /\ pc = "exporting"
    /\ \E status \in Statuses :
         /\ commands' = Exit(commands, status)
         /\ IF StrictRaises(status)
            THEN pc' = "aborted" /\ exitStatus' = CalledProcessErrorExit(status)
            ELSE pc' = "export" /\ UNCHANGED exitStatus
    /\ UNCHANGED <<out, result, records, skills_to_export, next>>

\* the loop is exhausted: print("Batch export complete."); main() returns
Complete ==
    /\ pc = "export"
    /\ next = Len(skills_to_export)
    /\ out' = Append(out, Msg("Batch export complete."))
    /\ pc' = "returned"
    /\ exitStatus' = 0
    /\ UNCHANGED <<commands, result, records, skills_to_export, next>>

Next ==
    \/ BuildStart
    \/ BuildExit
    \/ ListStart
    \/ ListExit
    \/ ListFailed
    \/ Parse
    \/ ExportStart
    \/ ExportExit
    \/ Complete

Spec == Init /\ [][Next]_vars

(***************************************************************************)
(* Reference definitions the properties are stated with.  They describe    *)
(* lines and tokens by position, not by scanning as the program does.      *)
(***************************************************************************)
Terminated == pc \in {"returned", "aborted"}

IsExport(c) == Len(c.argv) = Len(ExportPrefix) + 1 /\ c.argv[9] = "export"

Exports == SelectSeq(commands, IsExport)

\* The arguments handed to the tool itself, after "--".
Logical(argv) == SubSeq(argv, 8, Len(argv))

ListSucceeded ==
    Len(commands) >= 2 /\ commands[2].exited /\ commands[2].status = 0

AfterParse == ListSucceeded /\ pc \in {"export", "exporting", "returned", "aborted"}

CompleteLine == Msg("Batch export complete.")

Emitted(l) == \E i \in 1 .. Len(out) : out[i] = l

\* The k-th smallest element of a set of numbers.
Kth(S, k) == CHOOSE i \in S : Cardinality({j \in S : j < i}) = k - 1

Breaks(s) == {i \in 1 .. Len(s) : s[i] = "\n"}

NumLines(s) ==
    Cardinality(Breaks(s)) + (IF s # <<>> /\ s[Len(s)] # "\n" THEN 1 ELSE 0)

TextLine(s, n) ==
    LET first == IF n = 1 THEN 1 ELSE Kth(Breaks(s), n - 1) + 1
        last == IF n <= Cardinality(Breaks(s)) THEN Kth(Breaks(s), n) - 1 ELSE Len(s)
    IN  SubSeq(s, first, last)

TokenStarts(l) ==
    {i \in 1 .. Len(l) : ~IsSpace(l[i]) /\ (i = 1 \/ IsSpace(l[i - 1]))}

NumTokens(l) == Cardinality(TokenStarts(l))

\* Token k of a line, counted from 1: Python's parts[k - 1].
Token(l, k) ==
    LET i == Kth(TokenStarts(l), k)
        j == CHOOSE e \in i .. Len(l) :
                 /\ \A m \in i .. e : ~IsSpace(l[m])
                 /\ (e = Len(l) \/ IsSpace(l[e + 1]))
    IN  SubSeq(l, i, j)

\* The line, once trimmed, begins with p (p ends in no whitespace).
BeginsWith(l, p) ==
    \E f \in 1 .. Len(l) :
        /\ \A m \in 1 .. f - 1 : IsSpace(l[m])
        /\ f + Len(p) - 1 <= Len(l)
        /\ \A m \in 1 .. Len(p) : l[f + m - 1] = p[m]

\* The line, once trimmed, is composed solely of dash characters.
DashOnly(l) ==
    NumTokens(l) = 1 /\ \A i \in 1 .. Len(l) : IsSpace(l[i]) \/ l[i] = "-"

HeaderLine(l) == BeginsWith(l, <<"C", "r", "a", "t", "o", "s", " ", "S", "k", "i", "l", "l", "s">>)

FiveDashLine(l) == BeginsWith(l, <<"-", "-", "-", "-", "-">>)

LineHasRecord(n) == \E i \in 1 .. Len(records) : records[i].line = n

\* The well-formed data rows of a listing, as line numbers: four tokens or more,
\* no header, no separator (a line the parser's separator test matches).
WellFormedRows(s) ==
    {n \in 1 .. NumLines(s) :
        /\ NumTokens(TextLine(s, n)) >= 4
        /\ ~HeaderLine(TextLine(s, n))
        /\ ~FiveDashLine(TextLine(s, n))}

Occurrences(seq, x) == Cardinality({i \in 1 .. Len(seq) : seq[i] = x})

(***************************************************************************)
(* Properties.                                                             *)
(***************************************************************************)

\* C1: if the export of the k-th selected skill exits non-zero, the run holds
\* exactly k export invocations, for positions 1..k of the batch in order, the
\* k-1 before it succeeded, the run is over, and the only other commands of
\* the run are the build and the list (nothing compensates or rolls back).
C1_FailFastExport ==
    \A k \in 1 .. Len(Exports) :
        (Exports[k].exited /\ Exports[k].status # 0) =>
            /\ pc = "aborted"
            /\ Len(Exports) = k
            /\ k <= Len(skills_to_export)
            /\ \A j \in 1 .. k : Exports[j].argv = ExportCmd(skills_to_export[j])
            /\ \A j \in 1 .. k - 1 : Exports[j].exited /\ Exports[j].status = 0
            /\ Len(commands) = k + 2
            /\ commands[1].argv = BuildCmd
            /\ commands[2].argv = ListCmd

\* C1 witness: the second of three selected skills failed to export.
C1_Witness ==
    /\ pc = "aborted"
    /\ Len(skills_to_export) = 3
    /\ Len(Exports) = 2
    /\ Exports[2].exited /\ Exports[2].status = 2

\* C2: when the list command exits non-zero, whatever it wrote to stdout, the
\* run prints the captured stderr, parses no record, selects nothing, runs no
\* export and returns normally, the script's own exit status being 0.
C2_QueryFailureIsSilent ==
    (Len(commands) >= 2 /\ commands[2].exited /\ commands[2].status # 0
        /\ pc # "check") =>
        /\ pc = "returned"
        /\ exitStatus = 0
        /\ out = <<Msg("Building Cratos..."), Msg("Fetching active skills..."),
                   Msg("Error listing skills:"), Line("", result.stderr, 0)>>
        /\ records = <<>>
        /\ skills_to_export = <<>>
        /\ Exports = <<>>
        /\ Len(commands) = 2

\* C2 witness: the list failed with status 2 after writing a listing with
\* builtin rows to stdout and text to stderr.
C2_Witness ==
    /\ pc = "returned"
    /\ result.returncode = 2
    /\ result.stdout = ScenarioText
    /\ result.stderr = <<"E">>

\* C3 as stated: whenever a strict command (build, export) exits with a
\* non-zero status s, the script terminates with exit status s.
C3_ExitStatusIsChildStatus ==
    \A j \in 1 .. Len(commands) :
        (commands[j].argv # ListCmd /\ commands[j].exited /\ commands[j].status # 0) =>
            pc = "aborted" /\ exitStatus = commands[j].status

\* C3 as amended: whenever a strict command (build, export) exits with a
\* non-zero status, the script terminates at once (that command is the last one
\* run and the last line printed is the one announcing it) and the script's own
\* exit status is 1, the status of an uncaught exception, whatever the child's.
C3_StrictFailureExitsWithOne ==
    \A j \in 1 .. Len(commands) :
        (commands[j].argv # ListCmd /\ commands[j].exited /\ commands[j].status # 0) =>
            /\ pc = "aborted"
            /\ exitStatus = 1
            /\ j = Len(commands)
            /\ out[Len(out)].text =
                  (IF j = 1 THEN "Building Cratos..." ELSE "Exporting {skill}...")

\* C3 witness: an export exited with status 2 and the script is over.
C3_Witness ==
    /\ pc = "aborted"
    /\ Len(Exports) >= 1
    /\ commands[Len(commands)].status = 2
    /\ IsExport(commands[Len(commands)])

\* C7: the build is the first command and has exited before the list starts,
\* the list is the second and has exited before any export starts (only the
\* last command started may still be running); when the build exits non-zero
\* it stays the only command of the run and nothing is parsed or selected.
C7_BuildThenListThenExports ==
    /\ \A j \in 1 .. Len(commands) - 1 : commands[j].exited
    /\ \A j \in 1 .. Len(commands) :
          /\ (j = 1) <=> (commands[j].argv = BuildCmd)
          /\ (j = 2) <=> (commands[j].argv = ListCmd)
          /\ (j >= 3) <=> IsExport(commands[j])
    /\ (Len(commands) >= 1 /\ commands[1].exited /\ commands[1].status # 0) =>
          /\ Len(commands) = 1
          /\ pc = "aborted"
          /\ records = <<>>
          /\ skills_to_export = <<>>

\* C7 witness: the build exited non-zero and the run is over.
C7_Witness ==
    /\ pc = "aborted"
    /\ Len(commands) = 1
    /\ commands[1].exited /\ commands[1].status = 2

\* C10: "Batch export complete." is printed exactly in the runs that end with
\* the build, the list and every export of the batch having exited with 0 (an
\* empty batch included); once printed it is the last line, printed once, and
\* the run has returned.
C10_CompleteLineIffDone ==
    /\ Emitted(CompleteLine) =>
          /\ pc = "returned"
          /\ out[Len(out)] = CompleteLine
          /\ Occurrences(out, CompleteLine) = 1
          /\ Len(commands) = 2 + Len(skills_to_export)
          /\ \A j \in 1 .. Len(commands) : commands[j].exited /\ commands[j].status = 0
    /\ (/\ Terminated
        /\ Len(commands) >= 2
        /\ \A j \in 1 .. Len(commands) : commands[j].status = 0) =>
          Emitted(CompleteLine)

\* C10 witness: a run with an empty batch printed the line after no export.
C10_Witness ==
    /\ pc = "returned"
    /\ Emitted(CompleteLine)
    /\ skills_to_export = <<>>
    /\ Exports = <<>>
    /\ NumLines(result.stdout) = 3

C5_BatchIsBuiltSubsequence ==
    AfterParse =>
        LET selected == SelectSeq(records, LAMBDA r : r.origin = <<"b", "u", "i", "l", "t">>)
        IN  /\ Len(skills_to_export) = Len(selected)
            /\ \A i \in 1 .. Len(selected) : skills_to_export[i] = selected[i].name
            /\ \A i \in 1 .. Len(records) :
                  Occurrences(skills_to_export, records[i].name)
                      = Cardinality({j \in 1 .. Len(selected) :
                                        selected[j].name = records[i].name})

\* C5 witness: the name a was listed twice as built, around a row of origin
\* "builtin", and stands twice in the batch.
C5_Witness ==
    /\ AfterParse
    /\ result.stdout = Unlines(<<LineBuiltA, LineBuiltin, LinePaddedA>>)
    /\ Len(records) = 3
    /\ skills_to_export = <<<<"a">>, <<"a">>>>

\* C6: in a run where the build, the list and every export succeed, the export
\* invocations are one per batch element, in batch order, the i-th with the
\* arguments skill export --markdown name_i; for the listing of the end-to-end
\* scenario they are two, for alpha and then gamma.
C6_ExportsEqualBatch ==
    (pc = "returned" /\ ListSucceeded) =>
        /\ Len(Exports) = Len(skills_to_export)
        /\ Len(commands) = 2 + Len(Exports)
        /\ \A i \in 1 .. Len(Exports) :
              /\ Exports[i].exited /\ Exports[i].status = 0
              /\ Logical(Exports[i].argv) =
                    <<"skill", "export", "--markdown", skills_to_export[i]>>
        /\ (result.stdout = ScenarioText) =>
              /\ Len(Exports) = 2
              /\ Logical(Exports[1].argv) =
                    <<"skill", "export", "--markdown", <<"a", "l", "p", "h", "a">>>>
              /\ Logical(Exports[2].argv) =
                    <<"skill", "export", "--markdown", <<"g", "a", "m", "m", "a">>>>

\* C6 witness: the run on the scenario's listing returned after its exports.
C6_Witness ==
    /\ pc = "returned"
    /\ ListSucceeded
    /\ result.stdout = ScenarioText
    /\ Len(Exports) = 2

\* C9 as stated: a line yields a record exactly when, trimmed, it is not
\* composed solely of dashes, does not start with "Cratos Skills" and has four
\* tokens or more.
C9_SeparatorIsDashOnly ==
    AfterParse =>
        \A n \in 1 .. NumLines(result.stdout) :
            LET l == TextLine(result.stdout, n)
            IN  LineHasRecord(n) <=>
                    (~DashOnly(l) /\ ~HeaderLine(l) /\ NumTokens(l) >= 4)

\* C9 as amended: a line yields a record exactly when, trimmed, it does not
\* start with five dashes, does not start with "Cratos Skills" and has four
\* tokens or more; so every dash-only line is skipped, and so is a row whose
\* first token merely begins with five dashes.
C9_SeparatorIsFiveDashPrefix ==
    AfterParse =>
        \A n \in 1 .. NumLines(result.stdout) :
            LET l == TextLine(result.stdout, n)
            IN  /\ LineHasRecord(n) <=>
                      (~FiveDashLine(l) /\ ~HeaderLine(l) /\ NumTokens(l) >= 4)
                /\ DashOnly(l) => ~LineHasRecord(n)

\* C9 witness: a short dash-only line and a row whose icon begins with five
\* dashes were both skipped, the row after them was not.
C9_Witness ==
    /\ AfterParse
    /\ result.stdout = Unlines(<<LineShortDashes, LineDashIcon, LineBuiltA>>)
    /\ ~LineHasRecord(1)
    /\ ~LineHasRecord(2)
    /\ LineHasRecord(3)

====
